---- MODULE Spec2Model ----
(***************************************************************************)
(* Model of src/ui/multi_agent.py: the approval termination strategy, the  *)
(* HTML extractor, the Git environment setup, the Git deployment pipeline  *)
(* and the workflow run_multi_agent that drives them.                      *)
(*                                                                         *)
(* A text (a Python str) is a sequence of lexemes.  A lexeme is a run of   *)
(* characters that the program's searches treat as a unit: the fence       *)
(* opener with its tag, a bare fence, a whitespace character, a word, or   *)
(* one of the two approval phrases.  None of the strings the program       *)
(* searches for can straddle two lexemes of this alphabet, so  p in s  is  *)
(* membership of lexeme p in the sequence s after case conversion.  A      *)
(* string of this module cannot hold a backtick: ~~~ stands for the three  *)
(* backticks of a fence.                                                   *)
(***************************************************************************)
EXTENDS Integers, Sequences, FiniteSets, TLC

VARIABLES
    history,        \* the ChatHistory handed to should_agent_terminate
    terminate,      \* the value should_agent_terminate returned for history
    all_messages,   \* the list of message dicts handed to extract_html_code
    html_code,      \* the value extract_html_code returned for all_messages
    platform_system,\* platform.system()
    index_html,     \* the content of index.html in the target directory, or None
    repo,           \* the Git repository of the target directory
    remote,         \* the branches of the repository behind the remote URL
    runs,           \* what each run of save_html_and_push_to_github reported
    cwd,            \* os.getcwd(): the working directory of the process
    setup_result,   \* how the last call of setup_git_environment ended
    user_input,     \* the argument of run_multi_agent
    pc,             \* the position of run_multi_agent
    result,         \* what run_multi_agent returned
    printed         \* the lines run_multi_agent printed about the outcome

chat_vars == <<history, terminate>>
extract_vars == <<all_messages, html_code>>
deploy_vars == <<platform_system, index_html, repo, remote, runs, cwd, setup_result>>
run_vars == <<user_input, pc, result, printed>>
vars == <<history, terminate, all_messages, html_code,
          platform_system, index_html, repo, remote, runs, cwd, setup_result,
          user_input, pc, result, printed>>

(***************************************************************************)
(* Bounds                                                                  *)
(***************************************************************************)
MaxTurns == 3
MaxLen == 6
MaxRuns == 3
MaxAgentTurns == 4

(***************************************************************************)
(* Texts                                                                   *)
(***************************************************************************)
None == <<"None">>

USER == "user"
ASSISTANT == "assistant"
AuthorRole == {USER, ASSISTANT}

\* str.lower() on one lexeme
lower(c) ==
    CASE c = "~~~HTML" -> "~~~html"
      [] c = "READY FOR USER APPROVAL" -> "ready for user approval"
      [] c = "Ready for user approval" -> "ready for user approval"
      [] c = "APPROVED" -> "approved"
      [] OTHER -> c

\* str.upper() on one lexeme
upper(c) ==
    CASE c = "~~~html" -> "~~~HTML"
      [] c = "Ready for user approval" -> "READY FOR USER APPROVAL"
      [] c = "approved" -> "APPROVED"
      [] c = "x" -> "X"
      [] c = "y" -> "Y"
      [] OTHER -> c

str_lower(s) == [i \in DOMAIN s |-> lower(s[i])]
str_upper(s) == [i \in DOMAIN s |-> upper(s[i])]

\* Python's  p in s  for a searched phrase p
In(p, s) == \E i \in DOMAIN s : s[i] = p

\* \s of the regular expression, and the characters str.strip() removes
IsSpace(c) == c \in {" ", "\n"}

\* re.IGNORECASE match of the literal ~~~html at one lexeme
MatchesOpener(c) == lower(c) = "~~~html"

\* match of the literal ~~~ at the start of one lexeme: a bare fence, or the
\* first three characters of an opener
MatchesFence(c) == c = "~~~" \/ lower(c) = "~~~html"

Min(S) == CHOOSE m \in S : \A n \in S : m <= n
Max(S) == CHOOSE m \in S : \A n \in S : m >= n

(***************************************************************************)
(* ApprovalTerminationStrategy.should_agent_terminate                      *)
(***************************************************************************)
\* the truth value of msg.content
Truthy(content) == Len(content) > 0

\* mutant: the marker is searched without lowering the content
has_html_code_case_sensitive(h) ==
    \E k \in DOMAIN h :
        Truthy(h[k].content) /\ In("~~~html", h[k].content)

\* mutant: the content is compared with the marker, not searched for it
has_html_code_whole_content(h) ==
    \E k \in DOMAIN h :
        Truthy(h[k].content) /\ str_lower(h[k].content) = <<"~~~html">>

has_html_code(h) ==
    \E k \in DOMAIN h :
        Truthy(h[k].content) /\ In("~~~html", str_lower(h[k].content))

ready_for_approval(h) ==
    \E k \in DOMAIN h :
        Truthy(h[k].content)
        /\ In("READY FOR USER APPROVAL", str_upper(h[k].content))

\* mutant: the approval is searched in every message, whatever its role
user_approved_any_role(h) ==
    \E k \in DOMAIN h : In("APPROVED", str_upper(h[k].content))

\* mutant: only the newest message is looked at
user_approved_newest_only(h) ==
    /\ h # <<>>
    /\ h[Len(h)].role = USER
    /\ In("APPROVED", str_upper(h[Len(h)].content))

\* the loop of lines 49-52: it returns True at the first message that fits
user_approved(h) ==
    \E k \in DOMAIN h :
        h[k].role = USER /\ In("APPROVED", str_upper(h[k].content))

\* mutant: the early return of lines 36-37 is missing
should_agent_terminate_without_html_gate(h) ==
    IF ready_for_approval(h) THEN user_approved(h) ELSE FALSE

should_agent_terminate(h) ==
    IF ~has_html_code(h) THEN FALSE
    ELSE IF ready_for_approval(h) THEN user_approved(h)
    ELSE FALSE

(***************************************************************************)
(* extract_html_code                                                       *)
(***************************************************************************)
\* The matches of  ~~~html\s*([\s\S]*?)~~~  that start at lexeme i of s, each as
\* <<n, m>>: \s* takes n lexemes, the group takes m, the closing fence follows.
MatchesAt(s, i) ==
    IF ~MatchesOpener(s[i]) THEN {}
    ELSE { nm \in (0..Len(s)) \X (0..Len(s)) :
             /\ i + nm[1] + nm[2] + 1 <= Len(s)
             /\ \A j \in (i + 1)..(i + nm[1]) : IsSpace(s[j])
             /\ MatchesFence(s[i + nm[1] + nm[2] + 1]) }

\* The match the backtracking engine reports at i: \s* is greedy (longest n
\* first), the group is lazy (then the shortest m).
\* mutant: the group is greedy too, ([\s\S]*) for ([\s\S]*?)
FirstMatchAt_greedy_group(s, i) ==
    LET ms == MatchesAt(s, i)
        n == Max({nm[1] : nm \in ms})
        m == Max({nm[2] : nm \in {x \in ms : x[1] = n}})
    IN  <<n, m>>

FirstMatchAt(s, i) ==
    LET ms == MatchesAt(s, i)
        n == Max({nm[1] : nm \in ms})
        m == Min({nm[2] : nm \in {x \in ms : x[1] = n}})
    IN  <<n, m>>

\* re.search(html_pattern, content, re.IGNORECASE | re.DOTALL): the leftmost start
\* that matches, with its group(1); matched is FALSE where re.search returns None
re_search(s) ==
    LET starts == {i \in DOMAIN s : MatchesAt(s, i) # {}}
    IN  IF starts = {} THEN [matched |-> FALSE, group1 |-> <<>>]
        ELSE LET i == Min(starts)
                 nm == FirstMatchAt(s, i)
             IN  [matched |-> TRUE,
                  group1 |-> SubSeq(s, i + nm[1] + 1, i + nm[1] + nm[2])]

RECURSIVE lstrip(_)
lstrip(s) ==
    IF s # <<>> /\ IsSpace(Head(s)) THEN lstrip(Tail(s)) ELSE s

RECURSIVE rstrip(_)
rstrip(s) ==
    IF s # <<>> /\ IsSpace(s[Len(s)]) THEN rstrip(SubSeq(s, 1, Len(s) - 1)) ELSE s

\* str.strip()
strip(s) == rstrip(lstrip(s))

\* the body of the for loop for the messages from k on
RECURSIVE extract_from(_, _)
extract_from(messages, k) ==
    IF k > Len(messages) THEN None
    ELSE LET match == re_search(messages[k].content)
         IN  IF match.matched /\ strip(match.group1) # <<>>
             THEN strip(match.group1)
             ELSE extract_from(messages, k + 1)

\* mutant: the messages are scanned newest first
RECURSIVE extract_from_newest(_, _)
extract_from_newest(messages, k) ==
    IF k < 1 THEN None
    ELSE LET match == re_search(messages[k].content)
         IN  IF match.matched /\ strip(match.group1) # <<>>
             THEN strip(match.group1)
             ELSE extract_from_newest(messages, k - 1)

extract_html_code_newest_first(messages) ==
    extract_from_newest(messages, Len(messages))

extract_html_code(messages) == extract_from(messages, 1)

(***************************************************************************)
(* The target directory, its repository and the remote                     *)
(***************************************************************************)
Branches == {"main", "master"}

\* line 369
repo_url == "https://github.com/odl-user-1804678/Capstone-Project-Agentic-AI.git"

\* a directory in which git init was never run
NoRepository ==
    [git_dir |-> FALSE, branch |-> "none", user_name |-> FALSE,
     index |-> None, commits |-> <<>>, origin |-> "none"]

\* the repository setup_git_environment leaves in a fresh directory when git
\* init names the first branch b: identity set, origin registered
PreparedRepository(b) ==
    [git_dir |-> TRUE, branch |-> b, user_name |-> TRUE,
     index |-> None, commits |-> <<>>, origin |-> repo_url]

\* the remote repository: empty, or with a history of its own on main
RemoteStates ==
    { [main |-> <<>>, master |-> <<>>],
      [main |-> << <<"README">> >>, master |-> <<>>] }

\* lines 291, 395 and 450
target_directory == "C:\\LabFiles\\CAPSTONE-PROJECT\\src\\ui"

\* the directory the process was started in
LaunchDirectory == "launch directory"

NothingDeployed ==
    /\ platform_system = "Linux"
    /\ index_html = None
    /\ repo = NoRepository
    /\ remote = [main |-> <<>>, master |-> <<>>]
    /\ runs = <<>>
    /\ cwd = LaunchDirectory
    /\ setup_result = "not called"

\* run_multi_agent was not called
NotRunning ==
    /\ user_input = None
    /\ pc = "not called"
    /\ result = [returned |-> "nothing yet"]
    /\ printed = <<>>

\* the content of index.html in the commit HEAD names, None on an unborn branch
HeadContent(r) == IF r.commits = <<>> THEN None ELSE r.commits[Len(r.commits)]

IsPrefix(s, t) == Len(s) <= Len(t) /\ SubSeq(t, 1, Len(s)) = s

(***************************************************************************)
(* create_git_script: the steps of the generated script.  x is the state   *)
(* of one execution: the repository, the remote, the lines echoed, the     *)
(* pushes attempted, and whether the script runs, has exited or was killed *)
(* by the timeout of subprocess.run.  env holds what the run does not      *)
(* control: the branch name git init picks, the command that fails or      *)
(* hangs, and the pushes the remote would accept.                          *)
(***************************************************************************)
Faults == {"none", "write", "init", "add", "commit", "hang_main", "hang_master"}

Env ==
    [default_branch : Branches, fault : Faults, accepts : [Branches -> BOOLEAN]]

Start(file, r, rem) ==
    [file |-> file, repo |-> r, remote |-> rem, stdout |-> <<>>, pushes |-> <<>>,
     committed |-> FALSE, status |-> "running", returncode |-> 0]

Echo(x, line) == [x EXCEPT !.stdout = Append(@, line)]

Exit(x, code) == [x EXCEPT !.status = "exited", !.returncode = code]

Killed(x) == [x EXCEPT !.status = "killed"]

\* lines 227-230 and 153-160
git_init(x, env) ==
    IF x.repo.git_dir THEN x
    ELSE IF env.fault = "init"
         THEN Exit(Echo(x, "Initializing Git repository..."), 1)
         ELSE [Echo(x, "Initializing Git repository...") EXCEPT
                  !.repo.git_dir = TRUE, !.repo.branch = env.default_branch]

\* lines 233-237 and 163-168
git_config_user(x) ==
    IF x.repo.user_name THEN x
    ELSE [Echo(x, "Setting Git user configuration...") EXCEPT
             !.repo.user_name = TRUE]

\* git add index.html, lines 248 and 179-183
git_add(x, env) ==
    IF env.fault = "add" THEN Exit(x, 1)
    ELSE [x EXCEPT !.repo.index = x.file]

\* git diff --staged --quiet exits 0: the index holds what HEAD holds
git_diff_staged_quiet(x) == x.repo.index = HeadContent(x.repo)

\* git commit, lines 257 and 193-197
git_commit(x, env) ==
    IF env.fault = "commit" THEN Exit(x, 1)
    ELSE [x EXCEPT !.repo.commits = Append(@, x.repo.index), !.committed = TRUE]

\* whether git push origin b updates the remote: origin is registered, b is a
\* local branch, the remote is reachable and b fast-forwards there
PushAccepted(x, b, env) ==
    /\ x.repo.origin # "none"
    /\ x.repo.branch = b
    /\ env.accepts[b]
    /\ IsPrefix(x.remote[b], x.repo.commits)

\* git push origin b, lines 260, 262, 200 and 206; a push that hangs is killed
\* with the script, before or after the remote took the commits
git_push(x, b, env) ==
    LET ok == PushAccepted(x, b, env)
        pushed == [x EXCEPT !.pushes = Append(@, [branch |-> b, ok |-> ok]),
                            !.remote[b] = IF ok THEN x.repo.commits ELSE @]
    IN  IF env.fault = "hang_" \o b THEN Killed(pushed) ELSE pushed

LastPushOk(x) == x.pushes[Len(x.pushes)].ok

\* lines 259-268 of the bash script
bash_push(x, env) ==
    LET x1 == git_push(Echo(x, "Pushing to GitHub..."), "main", env)
    IN  IF x1.status = "killed" THEN x1
        ELSE IF LastPushOk(x1)
        THEN Exit(Echo(x1, "SUCCESS: Weather app deployed to GitHub!"), 0)
        ELSE LET x2 == git_push(x1, "master", env)
             IN  IF x2.status = "killed" THEN x2
                 ELSE IF LastPushOk(x2)
                 THEN Exit(Echo(x2, "SUCCESS: Weather app deployed to GitHub (master)!"), 0)
                 ELSE Exit(Echo(x2, "ERROR: Failed to push to GitHub"), 1)

\* lines 199-214 of the batch script.  The block opened on line 207 is not
\* closed before the else of line 209, so that line is a command of the block:
\* cmd reports that else is no command and goes on to the echo and the exit of
\* lines 210-212.  When the push to master fails the block is skipped and the
\* script ends with the errorlevel of that push.
bat_push(x, env) ==
    LET x1 == git_push(Echo(x, "Pushing to GitHub..."), "main", env)
    IN  IF x1.status = "killed" THEN x1
        ELSE IF LastPushOk(x1)
        THEN Exit(Echo(x1, "SUCCESS: Weather app deployed to GitHub"), 0)
        ELSE LET x2 == git_push(Echo(x1, "Trying master branch..."), "master", env)
             IN  IF x2.status = "killed" THEN x2
                 ELSE IF LastPushOk(x2)
                 THEN Exit(Echo(Echo(x2,
                          "SUCCESS: Weather app deployed to GitHub on master branch"),
                          "ERROR: Failed to push to GitHub"), 1)
                 ELSE Exit(x2, 1)

\* the script from its first line to the commit, the same in both scripts:
\* lines 221-257 and 147-197
script_to_commit(x0, env) ==
    LET x1 == git_init(Echo(x0, "Starting Git operations for weather app deployment..."), env)
    IN  IF x1.status # "running" THEN x1
        ELSE LET x2 == git_config_user(x1)
             IN  IF x2.file = None
                 THEN Exit(Echo(x2, "Error: index.html not found in current directory"), 1)
                 ELSE LET x3 == git_add(Echo(x2, "Staging index.html..."), env)
                      IN  IF x3.status # "running" THEN x3
                          ELSE IF git_diff_staged_quiet(x3)
                          THEN Exit(Echo(x3, "No changes to commit."), 0)
                          ELSE git_commit(Echo(x3, "Committing changes..."), env)

\* lines 218-269
bash_script(x0, env) ==
    LET x == script_to_commit(x0, env)
    IN  IF x.status = "running" THEN bash_push(x, env) ELSE x

\* lines 145-215
bat_script(x0, env) ==
    LET x == script_to_commit(x0, env)
    IN  IF x.status = "running" THEN bat_push(x, env) ELSE x

\* lines 144 and 417-424
run_script(x, env) ==
    IF platform_system = "Windows" THEN bat_script(x, env) ELSE bash_script(x, env)

(***************************************************************************)
(* save_html_and_push_to_github                                            *)
(***************************************************************************)
Artifacts == {<<"x">>, <<"y">>}

\* what the function prints for the run, lines 426-444
Report(x) ==
    IF x.status = "killed" THEN "Deployment timed out!"
    ELSE IF x.returncode = 0 THEN "Deployment completed successfully!"
    ELSE "Deployment failed:"

RunRecord(code, x, env) ==
    [content |-> code, fault |-> env.fault, report |-> Report(x), status |-> x.status,
     returncode |-> x.returncode, stdout |-> x.stdout, pushes |-> x.pushes,
     committed |-> x.committed]

\* open() or write() raised, lines 403-404 and 441-444: nothing was run
WriteFailed(code) ==
    [content |-> code, fault |-> "write",
     report |-> "Unexpected error during deployment",
     status |-> "not run", returncode |-> 0, stdout |-> <<>>, pushes |-> <<>>,
     committed |-> FALSE]

\* the call save_html_and_push_to_github(code, target_directory), lines 390-444.
\* When writing the file raises, original_dir is not yet a local and the
\* directory was not changed (line 443); otherwise the script runs in the
\* target directory and lines 436, 440 and 444 change back to original_dir.
save_html(code, env) ==
    IF env.fault = "write"
    THEN /\ runs' = Append(runs, WriteFailed(code))
         /\ UNCHANGED <<index_html, repo, remote, cwd>>
    ELSE LET original_dir == cwd
             x == run_script(Start(code, repo, remote), env)
         IN  /\ index_html' = code
             /\ repo' = x.repo
             /\ remote' = x.remote
             /\ runs' = Append(runs, RunRecord(code, x, env))
             /\ cwd' = original_dir

save_html_and_push_to_github ==
    /\ Len(runs) < MaxRuns
    /\ \E code \in Artifacts, env \in Env : save_html(code, env)
    /\ UNCHANGED <<platform_system, setup_result, chat_vars, extract_vars, run_vars>>

InitDeploy ==
    /\ platform_system \in {"Windows", "Linux"}
    /\ index_html = None
    /\ repo \in {NoRepository} \cup {PreparedRepository(b) : b \in Branches}
    /\ remote \in RemoteStates
    /\ runs = <<>>
    /\ cwd = LaunchDirectory
    /\ setup_result = "not called"
    /\ history = <<>>
    /\ terminate = FALSE
    /\ all_messages = <<>>
    /\ html_code = None
    /\ NotRunning

NextDeploy == save_html_and_push_to_github

SpecDeploy == InitDeploy /\ [][NextDeploy]_vars

(***************************************************************************)
(* setup_git_environment.  s is the state of one call: the repository, the *)
(* directory saved in original_dir, the working directory, and whether the *)
(* call still runs, returned True or False, or let an exception out.       *)
(* fault names the command whose subprocess.run raises and what it raises; *)
(* PermissionError stands for the exceptions no handler of the function    *)
(* names.  A command that is not run in this call cannot fail.             *)
(***************************************************************************)
SetupFaults ==
    {[cmd |-> "none", exc |-> "none"]}
    \cup [cmd : {"version"},
          exc : {"CalledProcessError", "FileNotFoundError", "TimeoutExpired",
                 "PermissionError"}]
    \cup [cmd : {"status"}, exc : {"TimeoutExpired", "PermissionError"}]
    \cup [cmd : {"init"},
          exc : {"CalledProcessError", "TimeoutExpired", "PermissionError"}]
    \cup [cmd : {"config", "config_local"}, exc : {"TimeoutExpired", "PermissionError"}]
    \cup [cmd : {"get_url"}, exc : {"TimeoutExpired", "PermissionError"}]
    \cup [cmd : {"remote_add"},
          exc : {"CalledProcessError", "TimeoutExpired", "PermissionError"}]

\* lines 299-300
setup_enter(r, dir) ==
    [repo |-> r, original_dir |-> dir, cwd |-> target_directory, returned |-> "running"]

\* a handler that prints, changes back and returns False: lines 308-310, 322-324
setup_return_false(s) == [s EXCEPT !.cwd = s.original_dir, !.returned = "False"]

\* an exception that no handler catches leaves the function
setup_raise(s) == [s EXCEPT !.returned = "raised"]

\* git --version, lines 302-310
setup_check_git(s, fault) ==
    IF fault.cmd # "version" THEN s
    ELSE IF fault.exc \in {"CalledProcessError", "FileNotFoundError", "TimeoutExpired"}
         THEN setup_return_false(s)
         ELSE setup_raise(s)

\* git status and git init, lines 312-324; git init names the first branch b
setup_repository(s, b, fault) ==
    IF fault.cmd = "status"
    THEN IF fault.exc = "TimeoutExpired" THEN setup_return_false(s) ELSE setup_raise(s)
    ELSE IF s.repo.git_dir THEN s
    ELSE IF fault.cmd = "init"
         THEN IF fault.exc \in {"CalledProcessError", "TimeoutExpired"}
              THEN setup_return_false(s)
              ELSE setup_raise(s)
         ELSE [s EXCEPT !.repo.git_dir = TRUE, !.repo.branch = b]

\* git config, lines 327-356.  A timeout leads to the local configuration of
\* lines 350-353; config_local is the case where that one raises as well,
\* which the bare except of line 355 catches.
setup_config(s, fault) ==
    IF fault.cmd = "config"
    THEN IF fault.exc = "TimeoutExpired"
         THEN [s EXCEPT !.repo.user_name = TRUE]
         ELSE setup_raise(s)
    ELSE IF fault.cmd = "config_local" THEN s
    ELSE [s EXCEPT !.repo.user_name = TRUE]

\* mutant: the answer of git remote get-url is not looked at
remote_get_url_returncode_ignored(r) == 2

\* the exit code of git remote get-url origin, lines 360-362
remote_get_url_returncode(r) == IF r.origin # "none" THEN 0 ELSE 2

\* git remote set-url origin repo_url, lines 377-381: fails without an origin
git_remote_set_url(r) ==
    IF r.origin # "none" THEN [r EXCEPT !.origin = repo_url] ELSE r

\* lines 358-384.  git remote add exits non-zero when origin exists; what it
\* raises other than CalledProcessError, and what get-url raises, is caught on
\* line 383.
setup_remote(s, fault) ==
    IF fault.cmd = "get_url" THEN s
    ELSE IF remote_get_url_returncode(s.repo) = 0 THEN s
    ELSE IF fault.cmd = "remote_add" /\ fault.exc # "CalledProcessError" THEN s
    ELSE IF fault.cmd = "remote_add" \/ s.repo.origin # "none"
         THEN [s EXCEPT !.repo = git_remote_set_url(@)]
         ELSE [s EXCEPT !.repo.origin = repo_url]

\* lines 387-388
setup_return_true(s) == [s EXCEPT !.cwd = s.original_dir, !.returned = "True"]

\* the call setup_git_environment(target_directory) made in directory dir
setup_git(r, dir, b, fault) ==
    LET s1 == setup_check_git(setup_enter(r, dir), fault)
        s2 == IF s1.returned = "running" THEN setup_repository(s1, b, fault) ELSE s1
        s3 == IF s2.returned = "running" THEN setup_config(s2, fault) ELSE s2
        s4 == IF s3.returned = "running" THEN setup_remote(s3, fault) ELSE s3
    IN  IF s4.returned = "running" THEN setup_return_true(s4) ELSE s4

setup_git_environment ==
    /\ \E b \in Branches, fault \in SetupFaults :
          LET s == setup_git(repo, cwd, b, fault)
          IN  /\ repo' = s.repo
              /\ cwd' = s.cwd
              /\ setup_result' = s.returned
    /\ UNCHANGED <<platform_system, index_html, remote, runs>>
    /\ UNCHANGED <<chat_vars, extract_vars, run_vars>>

\* a repository whose origin is not the default one
other_url == "https://github.com/someone/else.git"

\* the directories the functions are called on: no repository, a repository
\* without identity and remote, one with another remote, one already set up
Repositories ==
    { NoRepository,
      [NoRepository EXCEPT !.git_dir = TRUE, !.branch = "master"],
      [PreparedRepository("main") EXCEPT !.origin = other_url],
      PreparedRepository("main") }

InitSetup ==
    /\ platform_system \in {"Windows", "Linux"}
    /\ index_html = None
    /\ repo \in Repositories
    /\ remote = [main |-> <<>>, master |-> <<>>]
    /\ runs = <<>>
    /\ cwd = LaunchDirectory
    /\ setup_result = "not called"
    /\ history = <<>>
    /\ terminate = FALSE
    /\ all_messages = <<>>
    /\ html_code = None
    /\ NotRunning

\* one deployment into the directory that was set up: run_multi_agent calls
\* save_html_and_push_to_github only after setup_git_environment returned
\* True, lines 458 and 542
deploy_after_setup ==
    /\ setup_result = "True"
    /\ runs = <<>>
    /\ \E code \in Artifacts, env \in Env : save_html(code, env)
    /\ UNCHANGED <<platform_system, setup_result, chat_vars, extract_vars, run_vars>>

NextSetup == setup_git_environment \/ deploy_after_setup

SpecSetup == InitSetup /\ [][NextSetup]_vars

(***************************************************************************)
(* The transcripts the two functions are applied to                        *)
(***************************************************************************)
\* contents of chat messages: with and without each gate's phrase, in both cases
HistoryTexts ==
    { <<>>,
      <<"x">>,
      <<"~~~html", "x", "~~~">>,
      <<"x", " ", "~~~HTML">>,
      <<"READY FOR USER APPROVAL">>,
      <<"x", " ", "Ready for user approval">>,
      <<"APPROVED">>,
      <<"x", " ", "approved">>,
      <<"~~~html", "x", "~~~", "\n", "READY FOR USER APPROVAL">>,
      <<"READY FOR USER APPROVAL", " ", "APPROVED">>,
      <<"~~~HTML", "x", "~~~", "Ready for user approval", "approved">> }

ChatMessageContent(role, content) == [role |-> role, content |-> content]

InitHistory ==
    /\ history = <<>>
    /\ terminate = should_agent_terminate(history)
    /\ all_messages = <<>>
    /\ html_code = None
    /\ NothingDeployed
    /\ NotRunning

\* one more message reaches the chat history and the strategy is asked again
AddChatMessage ==
    /\ Len(history) < MaxTurns
    /\ \E role \in AuthorRole, content \in HistoryTexts :
           history' = Append(history, ChatMessageContent(role, content))
    /\ terminate' = should_agent_terminate(history')
    /\ UNCHANGED <<extract_vars, deploy_vars, run_vars>>

NextHistory == AddChatMessage

SpecHistory == InitHistory /\ [][NextHistory]_vars

\* contents of the messages extract_html_code scans: no fence, an unclosed one,
\* empty and blank blocks, blocks with different interiors, several in a turn
ExtractTexts ==
    { <<>>,
      <<"x">>,
      <<"~~~html", "\n", "x", "\n", "~~~">>,
      <<"x", " ", "~~~HTML", " ", "y", "~~~", "x">>,
      <<"~~~html", "x", " ", "y", "~~~">>,
      <<"~~~html", "x">>,
      <<"~~~html", "~~~">>,
      <<"~~~html", " ", "\n", "~~~">>,
      <<"~~~", "x", "~~~">>,
      <<"~~~html", "~~~", "~~~html", "y", "~~~">>,
      <<"~~~html", "y", "~~~", "~~~html", "x", "~~~">>,
      <<"~~~html", "~~~html", "x", "~~~">>,
      <<"READY FOR USER APPROVAL">> }

ExtractLexemes == {"~~~html", "~~~HTML", "~~~", " ", "x"}

\* every text of at most MaxLen lexemes
BoundedTexts == UNION {[1..n -> ExtractLexemes] : n \in 0..MaxLen}

\* lines 495 and 502-506: the first entry is the user's, the others the agents'
MessageDict(content) ==
    [role |-> IF all_messages = <<>> THEN USER ELSE ASSISTANT, content |-> content]

InitExtract ==
    /\ all_messages = <<>>
    /\ html_code = extract_html_code(all_messages)
    /\ history = <<>>
    /\ terminate = FALSE
    /\ NothingDeployed
    /\ NotRunning

\* one more message is tracked and the extractor is run on the list
AppendMessage ==
    /\ Len(all_messages) < MaxTurns
    /\ \E content \in ExtractTexts :
           all_messages' = Append(all_messages, MessageDict(content))
    /\ html_code' = extract_html_code(all_messages')
    /\ UNCHANGED <<chat_vars, deploy_vars, run_vars>>

NextExtract == AppendMessage

SpecExtract == InitExtract /\ [][NextExtract]_vars

\* the extractor is run on a list of one message, of any bounded content
ExtractFromOne ==
    /\ all_messages = <<>>
    /\ \E content \in BoundedTexts :
           all_messages' = <<MessageDict(content)>>
    /\ html_code' = extract_html_code(all_messages')
    /\ UNCHANGED <<chat_vars, deploy_vars, run_vars>>

NextExtractOne == ExtractFromOne

SpecExtractOne == InitExtract /\ [][NextExtractOne]_vars

(***************************************************************************)
(* run_multi_agent.  pc is the position of the coroutine: not called, in   *)
(* the loop over chat.invoke() (invoke), before the call of                *)
(* save_html_and_push_to_github (deploy), returned, or left by an          *)
(* exception (raised).  chat.invoke() is the loop of the group chat that   *)
(* line 484 builds: it asks the agents in turn for a message, asks the     *)
(* termination strategy after each message, and ends when the strategy     *)
(* answers True or when MaxAgentTurns messages were produced.              *)
(***************************************************************************)
\* the requests: one without the approval word and one that, like the request
\* of main (lines 568-573), quotes it
UserInputs == { <<"x">>, <<"x", " ", "APPROVED">> }

\* what an agent can answer: prose, a block, an unclosed block, the phrase of
\* the product owner, a block with the phrase
AgentTexts ==
    { <<"x">>,
      <<"~~~HTML", "x", "~~~">>,
      <<"~~~html", "y">>,
      <<"READY FOR USER APPROVAL">>,
      <<"~~~html", "y", "~~~", "\n", "READY FOR USER APPROVAL">> }

\* line 485
agents == <<"BusinessAnalyst", "SoftwareEngineer", "ProductOwner">>

\* the messages that agents produced
AgentMessages(messages) == {k \in DOMAIN messages : messages[k].role = ASSISTANT}

\* mutant: the selection never advances
NextAgent_always_first(n) == agents[1]

\* the agent asked for message number n of the loop: the chat of line 484 is
\* given no selection strategy and takes the agents in the order of the list
NextAgent(n) == agents[((n - 1) % Len(agents)) + 1]

\* lines 502-506
AgentMessageDict(content, name) ==
    [role |-> ASSISTANT, content |-> content, agent_name |-> name]

\* lines 513-517
any_ready_for_approval(messages) ==
    \E k \in DOMAIN messages :
        In("READY FOR USER APPROVAL", str_upper(messages[k].content))

\* mutant: the approval is added as a message of an agent
approval_msg_of_assistant == ChatMessageContent(ASSISTANT, <<"APPROVED">>)

\* lines 532-535
approval_msg == ChatMessageContent(USER, <<"APPROVED">>)

\* mutant: the approval is put in front of the tracked messages
track_approval_in_front(messages) ==
    <<[role |-> USER, content |-> <<"APPROVED">>]>> \o messages

\* line 537
track_approval(messages) ==
    Append(messages, [role |-> USER, content |-> <<"APPROVED">>])

\* return None, lines 460 and 558
ReturnNone == [returned |-> "None"]

\* lines 549-554
ReturnDict(messages, ready, html) ==
    [returned |-> "dict",
     messages |-> messages,
     status |-> IF ready THEN "completed" ELSE "incomplete",
     html_extracted |-> IF ready THEN html # None ELSE FALSE,
     target_directory |-> target_directory]

\* lines 582-587 of main: the result is a dict and main prints that the HTML
\* code was successfully extracted and deployed
main_reports_deployed(r) == r.returned = "dict" /\ r.html_extracted

\* lines 446-497: the Git environment is set up, the kernel and the chat are
\* created and the request is added.  create_kernel raises when the
\* environment lacks the settings of the service (kernel_ok is false).
Begin ==
    /\ pc = "not called"
    /\ \E input \in UserInputs, b \in Branches, fault \in SetupFaults,
          kernel_ok \in BOOLEAN :
          LET s == setup_git(repo, cwd, b, fault)
          IN  /\ user_input' = input
              /\ repo' = s.repo
              /\ cwd' = s.cwd
              /\ setup_result' = s.returned
              /\ IF s.returned = "raised"
                 THEN /\ pc' = "raised"
                      /\ UNCHANGED <<result, printed, history, all_messages>>
                 ELSE IF s.returned = "False"
                 THEN /\ pc' = "returned"
                      /\ result' = ReturnNone
                      /\ printed' = Append(printed, "Git environment setup failed.")
                      /\ UNCHANGED <<history, all_messages>>
                 ELSE IF ~kernel_ok
                 THEN /\ pc' = "returned"
                      /\ result' = ReturnNone
                      /\ printed' = Append(printed, "Error in multi-agent workflow")
                      /\ UNCHANGED <<history, all_messages>>
                 ELSE /\ pc' = "invoke"
                      /\ history' = <<ChatMessageContent(USER, input)>>
                      /\ all_messages' = <<[role |-> USER, content |-> input]>>
                      /\ UNCHANGED <<result, printed>>
    /\ UNCHANGED <<terminate, html_code, platform_system, index_html, remote, runs>>

\* one round of the loop of lines 500-506: the next agent answers, the chat
\* keeps the message and asks the strategy, the coroutine tracks the message
AgentTurn ==
    /\ pc = "invoke"
    /\ ~terminate
    /\ Cardinality(AgentMessages(all_messages)) < MaxAgentTurns
    /\ \E content \in AgentTexts :
          /\ history' = Append(history, ChatMessageContent(ASSISTANT, content))
          /\ all_messages' =
                Append(all_messages,
                       AgentMessageDict(content,
                           NextAgent(Cardinality(AgentMessages(all_messages)) + 1)))
    /\ terminate' = should_agent_terminate(history')
    /\ UNCHANGED <<html_code, deploy_vars, user_input, pc, result, printed>>

\* the request for the next message raises: lines 556-558
InvokeRaises ==
    /\ pc = "invoke"
    /\ ~terminate
    /\ Cardinality(AgentMessages(all_messages)) < MaxAgentTurns
    /\ pc' = "returned"
    /\ result' = ReturnNone
    /\ printed' = Append(printed, "Error in multi-agent workflow")
    /\ UNCHANGED <<chat_vars, extract_vars, deploy_vars, user_input>>

\* the loop has ended: lines 508-539 and 544-554
Summary ==
    /\ pc = "invoke"
    /\ terminate \/ Cardinality(AgentMessages(all_messages)) = MaxAgentTurns
    /\ LET ready == any_ready_for_approval(all_messages)
           html == IF ready THEN extract_html_code(all_messages) ELSE None
       IN  /\ html_code' = html
           /\ IF ready /\ html # None /\ Truthy(html)
              THEN /\ history' = Append(history, approval_msg)
                   /\ all_messages' = track_approval(all_messages)
                   /\ printed' = printed \o
                         <<"Agents completed work and are ready for approval!",
                           "HTML code extracted successfully!",
                           "User approved! Deploying to GitHub...">>
                   /\ pc' = "deploy"
                   /\ UNCHANGED result
              ELSE /\ printed' = printed \o
                         (IF ready
                          THEN <<"Agents completed work and are ready for approval!",
                                 "No HTML code found - cannot deploy!">>
                          ELSE <<"Workflow incomplete - agents did not reach approval stage">>)
                   /\ pc' = "returned"
                   /\ result' = ReturnDict(all_messages, ready, html)
                   /\ UNCHANGED <<history, all_messages>>
    /\ UNCHANGED <<terminate, deploy_vars, user_input>>

\* lines 542 and 549-554: the pipeline runs and the summary is returned
Deploy ==
    /\ pc = "deploy"
    /\ \E env \in Env : save_html(html_code, env)
    /\ pc' = "returned"
    /\ result' = ReturnDict(all_messages, TRUE, html_code)
    /\ UNCHANGED <<platform_system, setup_result, chat_vars, extract_vars,
                   user_input, printed>>

InitRun ==
    /\ platform_system \in {"Windows", "Linux"}
    /\ index_html = None
    /\ repo \in {NoRepository, PreparedRepository("main")}
    /\ remote = [main |-> <<>>, master |-> <<>>]
    /\ runs = <<>>
    /\ cwd = LaunchDirectory
    /\ setup_result = "not called"
    /\ history = <<>>
    /\ terminate = FALSE
    /\ all_messages = <<>>
    /\ html_code = None
    /\ NotRunning

NextRun == Begin \/ AgentTurn \/ InvokeRaises \/ Summary \/ Deploy

SpecRun == InitRun /\ [][NextRun]_vars

(***************************************************************************)
(* Properties of should_agent_terminate                                    *)
(***************************************************************************)
\* the spellings of the three phrases, in any case, that a text can hold
OpenerSpellings == {"~~~html", "~~~HTML"}
ReadySpellings == {"READY FOR USER APPROVAL", "Ready for user approval"}
ApprovedSpellings == {"APPROVED", "approved"}

Mentions(content, spellings) == \E i \in DOMAIN content : content[i] \in spellings

MarkerTurns == {k \in DOMAIN history : Mentions(history[k].content, OpenerSpellings)}
ReadyTurns == {k \in DOMAIN history : Mentions(history[k].content, ReadySpellings)}
ApprovedTurns == {k \in DOMAIN history : Mentions(history[k].content, ApprovedSpellings)}
UserApprovedTurns == {k \in ApprovedTurns : history[k].role = USER}

\* C1: a transcript in which no turn holds the html fence opener, in any case,
\* makes should_agent_terminate return False, whatever approval text and roles
\* its turns carry.
C1_NoMarkerNoTermination == MarkerTurns = {} => terminate = FALSE

C1_Witness ==
    /\ MarkerTurns = {}
    /\ ReadyTurns # {}
    /\ UserApprovedTurns # {}

\* C2: with a marker and a READY FOR USER APPROVAL turn but no User turn that
\* holds APPROVED, should_agent_terminate returns False; APPROVED in the turns
\* of other roles does not count.
C2_NoUserApprovalNoTermination ==
    (MarkerTurns # {} /\ ReadyTurns # {} /\ UserApprovedTurns = {})
        => terminate = FALSE

C2_Witness ==
    /\ MarkerTurns # {}
    /\ ReadyTurns # {}
    /\ UserApprovedTurns = {}
    /\ ApprovedTurns # {}

C4_MonotoneUnderAppend == [][terminate = TRUE => terminate' = TRUE]_vars

\* a turn was appended to a transcript that already terminated
C4_Witness ==
    /\ Len(history) >= 2
    /\ should_agent_terminate(SubSeq(history, 1, Len(history) - 1))
    /\ UserApprovedTurns \cap {Len(history)} = {}
    /\ terminate = TRUE

\* C5: whenever should_agent_terminate returns True, some READY FOR USER
\* APPROVAL turn is at a position not earlier than a turn that holds the marker.
C5_ReviewedAfterGenerated ==
    terminate = TRUE =>
        \E i \in MarkerTurns, j \in ReadyTurns : i <= j

(***************************************************************************)
(* Properties of extract_html_code                                         *)
(***************************************************************************)
FenceSpellings == {"~~~"} \cup OpenerSpellings

\* s without the whitespace at its two ends
Trimmed(s) ==
    LET inked == {i \in DOMAIN s : s[i] \notin {" ", "\n"}}
    IN  IF inked = {} THEN <<>> ELSE SubSeq(s, Min(inked), Max(inked))

\* the interiors of the html blocks of s: from an opener to the nearest fence
\* that follows it
BlockAt(s, i) ==
    LET closers == {j \in DOMAIN s : j > i /\ s[j] \in FenceSpellings}
    IN  IF s[i] \in OpenerSpellings /\ closers # {}
        THEN {SubSeq(s, i + 1, Min(closers) - 1)}
        ELSE {}

Openers(s) == {i \in DOMAIN s : s[i] \in OpenerSpellings}

\* the trimmed interiors of all well-formed blocks of s that are not blank
Blocks(s) ==
    {Trimmed(b) : b \in UNION {BlockAt(s, i) : i \in Openers(s)}} \ {<<>>}

\* the trimmed interior of the block of the first opener of s, if it is closed
FirstBlock(s) ==
    IF Openers(s) = {} THEN {}
    ELSE {Trimmed(b) : b \in BlockAt(s, Min(Openers(s)))}

TurnsWithBlock == {k \in DOMAIN all_messages : Blocks(all_messages[k].content) # {}}

TurnsAccepted ==
    {k \in DOMAIN all_messages : FirstBlock(all_messages[k].content) \ {<<>>} # {}}

\* C6 as claimed: the result is a block of the earliest turn that holds a
\* well-formed html block with a non-blank interior, and None only when no turn
\* holds one.
C6_EarliestTurnWithBlock ==
    IF TurnsWithBlock = {} THEN html_code = None
    ELSE html_code \in Blocks(all_messages[Min(TurnsWithBlock)].content)

\* C6 as amended: the result is the block of the earliest turn whose first html
\* block, the one of its first opener, is closed and not blank; it is None only
\* when no turn has such a first block.
C6_EarliestAcceptedTurn ==
    IF TurnsAccepted = {} THEN html_code = None
    ELSE html_code \in FirstBlock(all_messages[Min(TurnsAccepted)].content)

\* a rejected turn with a marker, then two accepted turns with different blocks
C6_Witness ==
    /\ Len(all_messages) = 3
    /\ Openers(all_messages[1].content) # {}
    /\ TurnsAccepted = {2, 3}
    /\ FirstBlock(all_messages[2].content) # FirstBlock(all_messages[3].content)
    /\ html_code \in FirstBlock(all_messages[2].content)

\* C7: what extract_html_code returns from the turn it selects is the trimmed
\* text between that turn's first opener and the nearest fence that follows it,
\* and a result other than None is never empty.
C7_SmallestSpanTrimmed ==
    (all_messages # <<>> /\ html_code # None) =>
        /\ html_code # <<>>
        /\ html_code \in FirstBlock(all_messages[1].content)

\* two concatenated fences, the first padded with whitespace
C7_Witness ==
    /\ all_messages # <<>>
    /\ all_messages[1].content = <<"~~~HTML", " ", "x", " ", "~~~", "~~~html">>
    /\ html_code = <<"x">>

(***************************************************************************)
(* Properties of the deployment pipeline                                   *)
(***************************************************************************)
\* the outcome a run reports: the exit code of the script and what it echoed
NoChange(r) ==
    /\ r.status = "exited"
    /\ r.returncode = 0
    /\ \E i \in DOMAIN r.stdout : r.stdout[i] = "No changes to commit."

Success(r) == r.status = "exited" /\ r.returncode = 0 /\ ~NoChange(r)

Pushed(r) == \E k \in DOMAIN r.pushes : r.pushes[k].ok

\* C8: of two runs in a row with the same content, where no command failed or
\* hung and the first run committed the content and the remote took it, the
\* first reports Success and the second creates no commit and reports NoChange.
C8_SecondRunNoChange ==
    \A i \in DOMAIN runs :
        (/\ i + 1 \in DOMAIN runs
         /\ runs[i].content = runs[i + 1].content
         /\ runs[i].fault = "none" /\ runs[i + 1].fault = "none"
         /\ runs[i].committed /\ Pushed(runs[i]))
        => /\ Success(runs[i])
           /\ NoChange(runs[i + 1])
           /\ ~runs[i + 1].committed

\* C9: with a remote registered, whenever the latest run ended with exit code
\* 0, a branch of the remote holds the commit of the current index.html; a run
\* whose pushes both failed is repaired by running the pipeline again.
C9_ExitZeroMeansPublished ==
    (repo.origin # "none" /\ runs # <<>>
        /\ runs[Len(runs)].status = "exited"
        /\ runs[Len(runs)].returncode = 0)
        => /\ repo.commits # <<>>
           /\ HeadContent(repo) = index_html
           /\ \E b \in Branches : remote[b] = repo.commits

\* C10: a run that reaches the push step and ends pushes to main first, pushes
\* to master once and only after main was rejected, and exits non-zero exactly
\* when both pushes failed.
C10_PushFallback ==
    \A i \in DOMAIN runs :
        LET r == runs[i]
        IN  (r.status = "exited" /\ r.pushes # <<>>)
            => /\ r.pushes[1].branch = "main"
               /\ Len(r.pushes) <= 2
               /\ Len(r.pushes) = 2 <=> ~r.pushes[1].ok
               /\ Len(r.pushes) = 2 => r.pushes[2].branch = "master"
               /\ r.returncode # 0 <=> \A k \in DOMAIN r.pushes : ~r.pushes[k].ok

(***************************************************************************)
(* Properties of the working directory and of the remote registration      *)
(***************************************************************************)
\* C11: every call of setup_git_environment and of
\* save_html_and_push_to_github, however it ends (a return, a script that
\* exits non-zero, a timeout, an exception), leaves the working directory of
\* the process as it was when the call was made.
C11_WorkingDirectoryRestored == [][cwd' = cwd]_vars

DeploymentFailed(r) == r.status # "exited" \/ r.returncode # 0

\* the loop over chat.invoke() was left by an exception
InvokeFailed ==
    /\ pc = "returned"
    /\ all_messages # <<>>
    /\ printed # <<>>
    /\ printed[Len(printed)] = "Error in multi-agent workflow"

\* the approval stage was reached and the extractor found nothing
ArtifactMissing ==
    /\ pc = "returned"
    /\ result.returned = "dict"
    /\ any_ready_for_approval(all_messages)
    /\ html_code = None

\* the turns of history that hold each phrase, a prefix of HistoryTexts apart
Holds(h, spellings) == {k \in DOMAIN h : Mentions(h[k].content, spellings)}

\* an approval turn that was added after the request
InjectedApprovals(h) ==
    {k \in Holds(h, ApprovedSpellings) : k > 1 /\ h[k].role = USER}

\* C12: when the run of the pipeline failed (the script exited non-zero or
\* timed out, or save_html_and_push_to_github caught an exception), what
\* run_multi_agent returns does not make the caller report a deployment.
C12_FailureNotReportedAsDeployed ==
    (pc = "returned" /\ runs # <<>> /\ DeploymentFailed(runs[Len(runs)]))
        => ~main_reports_deployed(result)

\* C13: when an exception leaves the loop over chat.invoke(), the run ends as
\* failed and what it returns holds the turns that were tracked until then.
C13_PartialTranscriptReturned ==
    InvokeFailed =>
        /\ "messages" \in DOMAIN result
        /\ result.messages = all_messages

\* C14: the loop produces at most MaxAgentTurns agent turns, and a run whose loop
\* ended at that bound, the strategy never having answered True, returns a
\* transcript that is not empty, with a status other than completed, and
\* deploys nothing.
C14_BoundReachedAborts ==
    /\ Cardinality(AgentMessages(all_messages)) <= MaxAgentTurns
    /\ (pc = "returned" /\ result.returned = "dict" /\ ~terminate)
           => /\ result.messages # <<>>
              /\ result.status # "completed"
              /\ runs = <<>>

\* C15: when the approval stage was reached and extract_html_code returned
\* None, the pipeline was not run, the missing artifact was printed, and the
\* status returned is not the one of a completed run.
C15_MissingArtifactAborts ==
    ArtifactMissing =>
        /\ runs = <<>>
        /\ In("No HTML code found - cannot deploy!", printed)
        /\ result.status # "completed"

\* C16: save_html_and_push_to_github is called only when a User turn holding
\* APPROVED was added to the transcript after the request, and at each call
\* the three gates of should_agent_terminate hold on the transcript.
C16_DeployOnlyAfterApproval ==
    [][runs' # runs =>
          /\ InjectedApprovals(history) # {}
          /\ InjectedApprovals(all_messages) # {}
          /\ has_html_code(history)
          /\ ready_for_approval(history)
          /\ user_approved(history)
          /\ should_agent_terminate(history)]_vars

\* the pipeline ran for a request that does not hold the approval word
C16_Witness ==
    /\ pc = "returned"
    /\ runs # <<>>
    /\ ~In("APPROVED", str_upper(user_input))
    /\ InjectedApprovals(history) = {Len(history)}

\* C17: run_multi_agent takes no configuration that enables an automatic
\* approval, so it never adds a User approval turn of its own and never
\* deploys.
C17_NoApprovalWithoutConfiguration ==
    /\ InjectedApprovals(all_messages) = {}
    /\ InjectedApprovals(history) = {}
    /\ runs = <<>>

\* C18: once the transcript holds the html marker and a READY FOR USER
\* APPROVAL turn and no approval turn was injected, no further agent turn is
\* added: the loop ends there.
C18_StopsWhenConverged ==
    [][(/\ pc = "invoke"
        /\ Holds(history, OpenerSpellings) # {}
        /\ Holds(history, ReadySpellings) # {}
        /\ InjectedApprovals(history) = {})
          => AgentMessages(all_messages') = AgentMessages(all_messages)]_vars

\* C20: all_messages starts as the list of one User turn that holds the
\* request, and every step after that leaves the turns it holds in place and
\* only adds turns at its end.
C20_AppendOnly ==
    [][IF all_messages = <<>>
       THEN all_messages' \in {<<>>, <<[role |-> USER, content |-> user_input']>>}
       ELSE /\ IsPrefix(all_messages, all_messages')
            /\ all_messages'[1] = [role |-> USER, content |-> user_input]]_vars

\* agent turns and then the approval were added behind the request
C20_Witness ==
    /\ pc = "returned"
    /\ Len(all_messages) >= 4
    /\ all_messages[1] = [role |-> USER, content |-> user_input]
    /\ all_messages[Len(all_messages)] = [role |-> USER, content |-> <<"APPROVED">>]
    /\ AgentMessages(all_messages) = 2 .. (Len(all_messages) - 1)

\* the positions of the agent turns of messages that precede position i
AgentTurnsBefore(messages, i) == {j \in AgentMessages(messages) : j < i}

TurnsOpenedOnly ==
    {k \in DOMAIN all_messages :
        /\ Openers(all_messages[k].content) # {}
        /\ FirstBlock(all_messages[k].content) \ {<<>>} = {}}

\* C22: on every transcript from which extract_html_code returns an artifact
\* the html gate of should_agent_terminate holds; on a transcript whose every
\* turn with an opener leaves its first block unclosed or blank the gate
\* holds as well, and extract_html_code returns None.
C22_ExtractionStricterThanGate ==
    /\ html_code # None => has_html_code(all_messages)
    /\ (TurnsOpenedOnly # {} /\ TurnsAccepted = {}) =>
           (has_html_code(all_messages) /\ html_code = None)

\* the gate holds and nothing is extracted: an opener that is never closed
\* and comes after prose
C22_Witness ==
    /\ all_messages # <<>>
    /\ all_messages[1].content = <<"x", " ", "~~~HTML", " ", "x">>
    /\ has_html_code(all_messages)
    /\ html_code = None

====
